---- MODULE Spec2Model ----
(***************************************************************************)
(* Online voting system: the Express routes of routes.js, the middleware   *)
(* of middleware.js and the Mongoose collections of models.js, as a state  *)
(* machine.  Every request is a process whose steps are the stretches of   *)
(* handler code between two awaits; a step that touches a collection does  *)
(* so atomically (one MongoDB operation), and steps of different requests  *)
(* interleave freely, as they do on the Node event loop and across server  *)
(* processes.                                                              *)
(***************************************************************************)
EXTENDS Integers, Sequences, FiniteSets, TLC

\* ------------------------------------------------------------ bounds
MaxRequests == 2       \* requests started in one behaviour, all may be in flight
MaxVotes == 2          \* AnonymousVote documents stored when a tally is studied

\* ------------------------------------------------------------ constants
Null == -1             \* a Date field holding null (votedAt: default null)
DefaultMaxSelections == 1

Voters == {"v1", "v2"}
Admin == "admin"
Anonymous == "anonymous"
Slots == 1..MaxRequests

\* the instants new Date() can return: before, at and after the window of the
\* election that SetupBodies configures
Times == {0, 1, 2}

\* req.user.email of the authenticated user
Email(u) == <<u, "@mail">>

\* ------------------------------------------------------------ inputs
Candidate(id) == [id |-> id]
Contest(id, cands, max) == [id |-> id, candidates |-> cands, maxSelections |-> max]

\* the contest schema an admin posts to /admin/election/setup
Schema ==
    << Contest("C1", <<Candidate("A"), Candidate("B")>>, DefaultMaxSelections),
       Contest("C2", <<Candidate("Y")>>, DefaultMaxSelections) >>

\* req.body of /admin/election/setup: startAt, endAt, contests
SetupBodies == { [startAt |-> 1, endAt |-> 1, contests |-> Schema] }

Selection(k, ids) == [contestId |-> k, selectedCandidateIds |-> ids]

\* req.body.selections of /vote/submit: a valid ballot that omits contest C2,
\* and one with an unknown contest, an unknown candidate and two candidates
\* where maxSelections is 1
SelValid == << Selection("C1", <<"A">>) >>
SelInvalid == << Selection("X", <<"A">>), Selection("C1", <<"Z", "A", "B">>) >>
SubmitBodies == {SelValid, SelInvalid}

\* further ballots a tally may meet: both contests, one candidate twice, a
\* candidate id and a contest id that name properties of Object.prototype, and
\* "__proto__" as a contest id
SelBoth == << Selection("C1", <<"B">>), Selection("C2", <<"Y">>) >>
SelTwice == << Selection("C1", <<"A", "A">>) >>
SelProtoCandidate == << Selection("C1", <<"toString">>) >>
SelProtoContest == << Selection("constructor", <<"name">>) >>
SelProtoBoth == << Selection("__proto__", <<"toString">>), Selection("C1", <<"toString">>) >>
VotePool == SubmitBodies \cup {SelBoth, SelTwice, SelProtoCandidate, SelProtoContest,
                               SelProtoBoth}

NoBody == << >>

\* ------------------------------------------------------------ state
VARIABLES
    now,          \* the time new Date() returned last
    elections,    \* Election collection, in insertion order
    assignments,  \* BallotAssignment collection; _id = position
    votes,        \* AnonymousVote collection, in insertion order
    auditLog,     \* AuditLog collection, in insertion order
    req,          \* the requests in flight, one per slot
    last,         \* the answer sent last (res.json), or the exception thrown
    nextElection, \* Election documents created so far (gives the next _id)
    nextReceipt,  \* receipts drawn so far (randomBytes never repeats)
    started,      \* requests started so far
    issued,       \* history: receipts answered to voters
    tallied,      \* history: elections for which /admin/tally/run has answered
    published,    \* history: elections /admin/results/publish has saved
    objectPrototype \* Object.prototype of the process: what its properties hold

vars == <<now, elections, assignments, votes, auditLog, req, last, nextElection,
          nextReceipt, started, issued, tallied, published, objectPrototype>>

NoElection == [_id |-> 0, startAt |-> 0, endAt |-> 0, isOpen |-> FALSE,
               isPublished |-> FALSE, contests |-> << >>]

NoResults == << >>

\* details: { default: {} } of an AuditLog document
NoDetails == [k \in {} |-> 0]

\* the property names every object literal inherits from Object.prototype
ObjectPrototype == {"constructor", "toString", "valueOf", "hasOwnProperty", "__proto__"}

\* JavaScript values held by a results object: a number, or the built-in
\* function `name` (ones = 0) and the strings that `+= 1` makes of it (its
\* source text followed by `ones` 1s)
Num(n) == [num |-> n]
FnString(name, ones) == [fn |-> name, ones |-> ones]

\* Object.prototype when the process starts: every name but the accessor
\* "__proto__" holds its built-in function
PristinePrototype == [name \in ObjectPrototype \ {"__proto__"} |-> FnString(name, 0)]

Idle == [pc |-> "idle", kind |-> "none", user |-> Admin, body |-> NoBody,
         election |-> NoElection, record |-> 0, issuedAt |-> Null,
         votedAt |-> Null, receipt |-> 0, votes |-> << >>,
         results |-> NoResults, after |-> {}]

NoAnswer == [kind |-> "none", user |-> Admin, status |-> 0, message |-> "",
             election |-> NoElection, receipt |-> 0, votes |-> << >>,
             results |-> NoResults, after |-> {}]

\* the database before the first request
EmptyDb ==
    /\ elections = << >>
    /\ auditLog = << >>
    /\ nextElection = 0
    /\ last = NoAnswer

\* the database after an admin has run setup and then open, and both have
\* answered
OpenedDb ==
    \E b \in SetupBodies :
       LET doc == [_id |-> 1, startAt |-> b.startAt, endAt |-> b.endAt,
                   isOpen |-> FALSE, isPublished |-> FALSE, contests |-> b.contests]
       IN  /\ elections = << [doc EXCEPT !.isOpen = TRUE] >>
           /\ auditLog = << [actor |-> Email(Admin), actorId |-> Admin,
                             action |-> "election_setup", details |-> NoDetails],
                            [actor |-> Email(Admin), actorId |-> Admin,
                             action |-> "election_opened", details |-> NoDetails] >>
           /\ nextElection = 1
           /\ last = [NoAnswer EXCEPT !.kind = "open", !.status = 200,
                                      !.message = "Election opened", !.election = doc]

Init ==
    /\ now = 0
    /\ objectPrototype = PristinePrototype
    /\ assignments = << >>
    /\ votes = << >>
    /\ req = [s \in Slots |-> Idle]
    /\ nextReceipt = 0
    /\ started = 0
    /\ issued = {}
    /\ tallied = {}
    /\ published = {}
    /\ (EmptyDb \/ OpenedDb)

\* ------------------------------------------------------------ helpers
\* the routes behind electionOpenMiddleware and oneBallotOnlyMiddleware
VoterKinds == {"ballot", "submit"}

\* Election.findOne(): the first document in natural order, or null
FindElection == IF elections = << >> THEN NoElection ELSE Head(elections)

\* what the caller of request r gets back
Answer(r, code, msg) ==
    [kind |-> r.kind, user |-> r.user, status |-> code, message |-> msg,
     election |-> r.election, receipt |-> r.receipt, votes |-> r.votes,
     results |-> r.results, after |-> r.after]

\* res.status(code).json(...) ends the request
Respond(s, r, code, msg) ==
    /\ req' = [req EXCEPT ![s] = Idle]
    /\ last' = Answer(r, code, msg)

\* an exception nobody catches: the async handler's promise rejects and no
\* typed answer is sent (status 0)
Throw(s, r, err) ==
    /\ req' = [req EXCEPT ![s] = Idle]
    /\ last' = Answer(r, 0, err)

\* the request goes on to its next await
Continue(s, r) ==
    /\ req' = [req EXCEPT ![s] = r]
    /\ UNCHANGED last

\* one AuditLog document
AuditEntry(user, action, details) ==
    [actor |-> Email(user), actorId |-> user, action |-> action, details |-> details]

\* the k-th request of a behaviour runs in slot k
IsFree(s) == s = started + 1

\* the elections in which `user` has already been answered a receipt
VotedIn(user) == { i.electionId : i \in { j \in issued : j.voter = user } }

\* a request enters the router (authMiddleware has set req.user)
NewRequest(kind, user, body) ==
    [Idle EXCEPT !.kind = kind, !.user = user, !.body = body, !.pc = "start",
                 !.after = VotedIn(user)]

\* ------------------------------------------------------------ voter routes
\* the condition of electionOpenMiddleware, negated: the request may pass
AcceptingNoUpperBound(election, t) ==
    ~(~election.isOpen \/ t < election.startAt)

Accepting(election, t) ==
    ~(~election.isOpen \/ t < election.startAt \/ t > election.endAt)

\* new Date(): the clock never runs backwards, so the time read is any time
\* from the one read last onwards
NewDate(t) ==
    /\ t \in Times
    /\ t >= now
    /\ now' = t

\* electionOpenMiddleware of request r, from Election.findOne() to next()
ElectionOpenMiddleware(s, r) ==
    /\ LET election == FindElection
       IN  IF election = NoElection
           THEN /\ Respond(s, r, 500, "No election configured")
                /\ UNCHANGED now
           ELSE \E t \in Times :
                   /\ NewDate(t)
                   /\ IF ~Accepting(election, t)
                      THEN Respond(s, [r EXCEPT !.election = election],
                                   403, "Election not open")
                      ELSE Continue(s, [r EXCEPT !.election = election,
                                                !.pc = "oneBallotFind"])
    /\ UNCHANGED <<elections, assignments, votes, auditLog, nextElection,
                   nextReceipt, issued, tallied, published, objectPrototype>>

\* GET /ballot/get arrives and runs up to its first await
StartBallot(s) ==
    /\ IsFree(s)
    /\ started < MaxRequests
    /\ started' = started + 1
    /\ \E v \in Voters : ElectionOpenMiddleware(s, NewRequest("ballot", v, NoBody))

\* POST /vote/submit arrives and runs up to its first await
StartSubmit(s) ==
    /\ IsFree(s)
    /\ started < MaxRequests
    /\ started' = started + 1
    /\ \E v \in Voters, b \in SubmitBodies :
          ElectionOpenMiddleware(s, NewRequest("submit", v, b))

\* BallotAssignment.findOne({voterId, electionId}): the _id found, or 0
FindAssignmentAnyVoter(voterId, electionId) ==
    LET hits == { i \in 1..Len(assignments) : assignments[i].electionId = electionId }
    IN  IF hits = {} THEN 0 ELSE CHOOSE i \in hits : \A j \in hits : i <= j

FindAssignment(voterId, electionId) ==
    LET hits == { i \in 1..Len(assignments) :
                     /\ assignments[i].voterId = voterId
                     /\ assignments[i].electionId = electionId }
    IN  IF hits = {} THEN 0 ELSE CHOOSE i \in hits : \A j \in hits : i <= j

\* if (record.votedAt) of oneBallotOnlyMiddleware
HasVotedNever(record) == FALSE

HasVoted(record) == record.votedAt # Null

\* where the chain goes after oneBallotOnlyMiddleware calls next()
AfterOneBallot(kind) == IF kind = "ballot" THEN "auditLogger" ELSE "voteCreate"

\* oneBallotOnlyMiddleware, from findOne to the create call or to next()
OneBallotFind(s) ==
    /\ req[s].pc = "oneBallotFind"
    /\ LET r == req[s]
           id == FindAssignment(r.user, r.election._id)
       IN  IF id = 0
           THEN \E t \in Times :
                   /\ NewDate(t)
                   /\ Continue(s, [r EXCEPT !.issuedAt = t, !.pc = "oneBallotCreate"])
           ELSE /\ IF HasVoted(assignments[id])
                   THEN Respond(s, r, 403, "Already voted")
                   ELSE Continue(s, [r EXCEPT !.record = id,
                                              !.pc = AfterOneBallot(r.kind)])
                /\ UNCHANGED now
    /\ UNCHANGED <<elections, assignments, votes, auditLog, nextElection,
                   nextReceipt, started, issued, tallied, published, objectPrototype>>

\* the unique index {voterId, electionId} refuses a second document
DuplicateKeyNever(voterId, electionId) == FALSE

DuplicateKey(voterId, electionId) == FindAssignment(voterId, electionId) # 0

\* oneBallotOnlyMiddleware, BallotAssignment.create and what follows it
OneBallotCreate(s) ==
    /\ req[s].pc = "oneBallotCreate"
    /\ LET r == req[s]
           doc == [voterId |-> r.user, electionId |-> r.election._id,
                   issuedAt |-> r.issuedAt, votedAt |-> Null]
       IN  IF DuplicateKey(r.user, r.election._id)
           THEN /\ Throw(s, r, "E11000 duplicate key")
                /\ UNCHANGED assignments
           ELSE /\ assignments' = Append(assignments, doc)
                /\ IF HasVoted(doc)
                   THEN Respond(s, r, 403, "Already voted")
                   ELSE Continue(s, [r EXCEPT !.record = Len(assignments) + 1,
                                              !.pc = AfterOneBallot(r.kind)])
    /\ UNCHANGED <<now, elections, votes, auditLog, nextElection,
                   nextReceipt, started, issued, tallied, published, objectPrototype>>

\* auditLogger('ballot_requested') and the handler of GET /ballot/get
BallotGet(s) ==
    /\ req[s].pc = "auditLogger"
    /\ auditLog' = Append(auditLog,
          AuditEntry(req[s].user, "ballot_requested",
                     [path |-> "/ballot/get", method |-> "GET"]))
    /\ Respond(s, req[s], 200, "ballot")
    /\ UNCHANGED <<now, elections, assignments, votes, nextElection,
                   nextReceipt, started, issued, tallied, published, objectPrototype>>

\* POST /vote/submit: AnonymousVote.create, then votedAt = new Date()
VoteCreate(s) ==
    /\ req[s].pc = "voteCreate"
    /\ LET r == req[s]
           receipt == nextReceipt + 1
       IN  /\ votes' = Append(votes, [electionId |-> r.election._id,
                                      selections |-> r.body,
                                      receipt |-> receipt])
           /\ \E t \in Times :
                 /\ NewDate(t)
                 /\ Continue(s, [r EXCEPT !.receipt = receipt, !.votedAt = t,
                                          !.pc = "markVoted"])
           /\ nextReceipt' = receipt
    /\ UNCHANGED <<elections, assignments, auditLog, nextElection,
                   started, issued, tallied, published, objectPrototype>>

\* req.ballotAssignment.save(): $set of the modified path votedAt, by _id
SaveVotedAt(id, t) == [assignments EXCEPT ![id].votedAt = t]

\* POST /vote/submit: await req.ballotAssignment.save()
MarkVoted(s) ==
    /\ req[s].pc = "markVoted"
    /\ assignments' = SaveVotedAt(req[s].record, req[s].votedAt)
    /\ Continue(s, [req[s] EXCEPT !.pc = "auditVote"])
    /\ UNCHANGED <<now, elections, votes, auditLog, nextElection,
                   nextReceipt, started, issued, tallied, published, objectPrototype>>

\* the details of the vote_submitted audit document
VoteAuditDetails(receipt) == [receipt |-> receipt]

\* POST /vote/submit: AuditLog.create and res.json({message, receipt})
VoteAudit(s) ==
    /\ req[s].pc = "auditVote"
    /\ LET r == req[s]
       IN  /\ auditLog' = Append(auditLog,
                 AuditEntry(r.user, "vote_submitted", VoteAuditDetails(r.receipt)))
           /\ Respond(s, r, 200, "Vote submitted")
           /\ issued' = issued \cup {[voter |-> r.user,
                                      electionId |-> r.election._id,
                                      receipt |-> r.receipt]}
    /\ UNCHANGED <<now, elections, assignments, votes, nextElection,
                   nextReceipt, started, tallied, published, objectPrototype>>

\* ------------------------------------------------------------ tally
EmptyObject == [k \in {} |-> Num(0)]

\* results[contest.id][candidate.id] = 0, for every candidate in turn
RECURSIVE ZeroCounts(_)
ZeroCounts(candidates) ==
    IF candidates = << >> THEN EmptyObject
    ELSE LET n == Len(candidates)
             prev == ZeroCounts(SubSeq(candidates, 1, n - 1))
             id == candidates[n].id
         IN  [c \in DOMAIN prev \cup {id} |-> IF c = id THEN Num(0) ELSE prev[c]]

\* the first loop of the tally: results[contest.id] = {} and its zero counts
RECURSIVE InitResults(_)
InitResults(contests) ==
    IF contests = << >> THEN [k \in {} |-> EmptyObject]
    ELSE LET n == Len(contests)
             prev == InitResults(SubSeq(contests, 1, n - 1))
             id == contests[n].id
         IN  [k \in DOMAIN prev \cup {id} |->
                 IF k = id THEN ZeroCounts(contests[n].candidates) ELSE prev[k]]

\* obj[key] !== undefined: an own property, or one inherited from Object.prototype
IsDefinedOwnOnly(obj, key) == key \in DOMAIN obj

IsDefined(obj, key) == key \in DOMAIN obj \/ key \in ObjectPrototype

\* value += 1: a number is incremented, a function or a string gets "1" appended
PlusOne(v) ==
    IF "num" \in DOMAIN v THEN Num(v.num + 1) ELSE FnString(v.fn, v.ones + 1)

\* counts[cid] += 1 on an object of results: when cid is not an own property the
\* value read is the one Object.prototype holds, and the sum becomes an own
\* property (assigning a string to "__proto__" is ignored by its setter)
Increment(counts, cid, proto) ==
    IF cid \in DOMAIN counts
    THEN [counts EXCEPT ![cid] = PlusOne(counts[cid])]
    ELSE IF cid = "__proto__" THEN counts
    ELSE [c \in DOMAIN counts \cup {cid} |->
             IF c = cid THEN PlusOne(proto[cid]) ELSE counts[c]]

\* for (const cid of s.selectedCandidateIds) if (... !== undefined) ... += 1
RECURSIVE CountIds(_, _, _)
CountIds(counts, ids, proto) ==
    IF ids = << >> THEN counts
    ELSE LET cid == Head(ids)
         IN  CountIds(IF IsDefined(counts, cid) THEN Increment(counts, cid, proto)
                      ELSE counts,
                      Tail(ids), proto)

\* the same loop when results[s.contestId] is Object.prototype itself
\* (s.contestId = "__proto__"): += 1 rewrites the property every object inherits
RECURSIVE CountIdsOnPrototype(_, _)
CountIdsOnPrototype(proto, ids) ==
    IF ids = << >> THEN proto
    ELSE LET cid == Head(ids)
         IN  CountIdsOnPrototype(
                 IF cid \in DOMAIN proto
                 THEN [proto EXCEPT ![cid] = PlusOne(proto[cid])]
                 ELSE proto,
                 Tail(ids))

\* for (const s of vote.selections): skipped when results[s.contestId] is falsy;
\* when s.contestId names another inherited property the inner loop writes to
\* that built-in function, and neither results nor Object.prototype changes
RECURSIVE CountSelections(_, _)
CountSelections(st, selections) ==
    IF selections = << >> THEN st
    ELSE LET sel == Head(selections)
             k == sel.contestId
         IN  CountSelections(
                 IF k \in DOMAIN st.results
                 THEN [st EXCEPT !.results[k] =
                          CountIds(st.results[k], sel.selectedCandidateIds, st.proto)]
                 ELSE IF k = "__proto__"
                 THEN [st EXCEPT !.proto =
                          CountIdsOnPrototype(st.proto, sel.selectedCandidateIds)]
                 ELSE st,
                 Tail(selections))

\* for (const vote of votes)
RECURSIVE CountVotes(_, _)
CountVotes(st, vs) ==
    IF vs = << >> THEN st
    ELSE CountVotes(CountSelections(st, Head(vs).selections), Tail(vs))

\* the aggregation of /admin/tally/run: the results object it builds and what
\* it leaves in Object.prototype
TallyRun(election, vs, proto) ==
    CountVotes([results |-> InitResults(election.contests), proto |-> proto], vs)

\* GET /results/view has loops of its own. The inner one, after the first n
\* ids of the selection at results[k]
RECURSIVE ViewCountIds(_, _, _, _)
ViewCountIds(st, k, ids, n) ==
    IF n = 0 THEN st
    ELSE LET prev == ViewCountIds(st, k, ids, n - 1)
             cid == ids[n]
         IN  IF k \in DOMAIN prev.results
             THEN IF IsDefined(prev.results[k], cid)
                  THEN [prev EXCEPT !.results[k] = Increment(@, cid, prev.proto)]
                  ELSE prev
             ELSE IF cid \in DOMAIN prev.proto
                  THEN [prev EXCEPT !.proto[cid] = PlusOne(@)]
                  ELSE prev

\* if (!results[s.contestId]) continue, for the first n selections of a vote
RECURSIVE ViewCountSelections(_, _, _)
ViewCountSelections(st, selections, n) ==
    IF n = 0 THEN st
    ELSE LET prev == ViewCountSelections(st, selections, n - 1)
             sel == selections[n]
         IN  IF sel.contestId \in DOMAIN prev.results \cup {"__proto__"}
             THEN ViewCountIds(prev, sel.contestId, sel.selectedCandidateIds,
                               Len(sel.selectedCandidateIds))
             ELSE prev

\* for (const vote of votes), for the first n votes
RECURSIVE ViewCountVotes(_, _, _)
ViewCountVotes(st, vs, n) ==
    IF n = 0 THEN st
    ELSE ViewCountSelections(ViewCountVotes(st, vs, n - 1), vs[n].selections,
                             Len(vs[n].selections))

\* results[contest.id] = {} and the zero counts of /results/view
ViewInitResults(contests) ==
    [k \in { contests[i].id : i \in DOMAIN contests } |->
        LET last_k == CHOOSE i \in DOMAIN contests :
                         /\ contests[i].id = k
                         /\ \A j \in DOMAIN contests : contests[j].id = k => j <= i
        IN  [c \in { contests[last_k].candidates[j].id :
                        j \in DOMAIN contests[last_k].candidates } |-> Num(0)]]

\* the aggregation of /results/view, left without its counting loops
ResultsViewUncounted(election, vs, proto) ==
    [results |-> ViewInitResults(election.contests), proto |-> proto]

\* the aggregation of /results/view
ResultsView(election, vs, proto) ==
    ViewCountVotes([results |-> ViewInitResults(election.contests), proto |-> proto],
                   vs, Len(vs))

\* AnonymousVote.find({electionId}): the matching documents, in natural order
RECURSIVE FindVotes(_, _)
FindVotes(vs, electionId) ==
    IF vs = << >> THEN << >>
    ELSE IF Head(vs).electionId = electionId
         THEN <<Head(vs)>> \o FindVotes(Tail(vs), electionId)
         ELSE FindVotes(Tail(vs), electionId)

\* ------------------------------------------------------------ admin routes
\* POST /admin/election/setup: await Election.deleteMany({})
SetupDelete(s, r) ==
    /\ elections' = << >>
    /\ Continue(s, [r EXCEPT !.pc = "setupCreate"])
    /\ UNCHANGED <<now, assignments, votes, auditLog, nextElection,
                   nextReceipt, issued, tallied, published, objectPrototype>>

\* POST /admin/election/setup arrives (authMiddleware and adminMiddleware pass)
StartSetup(s) ==
    /\ IsFree(s)
    /\ started < MaxRequests
    /\ started' = started + 1
    /\ \E b \in SetupBodies : SetupDelete(s, NewRequest("setup", Admin, b))

\* the document Election.create makes of the request body and the defaults
NewElectionOpen(id, body) ==
    [_id |-> id, startAt |-> body.startAt, endAt |-> body.endAt,
     isOpen |-> TRUE, isPublished |-> FALSE, contests |-> body.contests]

NewElection(id, body) ==
    [_id |-> id, startAt |-> body.startAt, endAt |-> body.endAt,
     isOpen |-> FALSE, isPublished |-> FALSE, contests |-> body.contests]

\* POST /admin/election/setup: await Election.create({...})
SetupCreate(s) ==
    /\ req[s].pc = "setupCreate"
    /\ LET doc == NewElection(nextElection + 1, req[s].body)
       IN  /\ elections' = Append(elections, doc)
           /\ Continue(s, [req[s] EXCEPT !.election = doc, !.pc = "setupAudit"])
    /\ nextElection' = nextElection + 1
    /\ UNCHANGED <<now, assignments, votes, auditLog,
                   nextReceipt, started, issued, tallied, published, objectPrototype>>

\* POST /admin/election/setup: AuditLog.create and res.status(201)
SetupAudit(s) ==
    /\ req[s].pc = "setupAudit"
    /\ auditLog' = Append(auditLog, AuditEntry(req[s].user, "election_setup", NoDetails))
    /\ Respond(s, req[s], 201, "election")
    /\ UNCHANGED <<now, elections, assignments, votes, nextElection,
                   nextReceipt, started, issued, tallied, published, objectPrototype>>

\* the flag an admin route sets, and the value it sets it to
FlagOf(kind) == IF kind = "publish" THEN "isPublished" ELSE "isOpen"
FlagValue(kind) == kind # "close"

\* open, close, publish: Election.findOne() and the assignment to the flag
FlagFind(s, r) ==
    /\ LET election == FindElection
       IN  IF election = NoElection
           THEN Throw(s, r, "TypeError: Cannot set properties of null")
           ELSE Continue(s, [r EXCEPT !.election = election, !.pc = "flagSave"])
    /\ UNCHANGED <<now, elections, assignments, votes, auditLog, nextElection,
                   nextReceipt, issued, tallied, published, objectPrototype>>

\* POST /admin/election/open, /close or /admin/results/publish arrives
StartFlag(s) ==
    /\ IsFree(s)
    /\ started < MaxRequests
    /\ started' = started + 1
    /\ \E kind \in {"open", "close", "publish"} :
          FlagFind(s, NewRequest(kind, Admin, NoBody))

ElectionIndex(id) == { i \in 1..Len(elections) : elections[i]._id = id }

\* election.save(): $set of the flag by _id, when the assignment changed it
FlagSave(s) ==
    /\ req[s].pc = "flagSave"
    /\ LET r == req[s]
           flag == FlagOf(r.kind)
           value == FlagValue(r.kind)
           modified == r.election[flag] # value
           at == ElectionIndex(r.election._id)
       IN  \/ /\ ~modified
              /\ Continue(s, [r EXCEPT !.pc = "flagAudit"])
              /\ UNCHANGED <<elections, published>>
           \/ /\ modified
              /\ at # {}
              /\ elections' = [i \in 1..Len(elections) |->
                     IF i \in at THEN [elections[i] EXCEPT ![flag] = value]
                     ELSE elections[i]]
              /\ published' = IF r.kind = "publish"
                              THEN published \cup {r.election._id} ELSE published
              /\ Continue(s, [r EXCEPT !.pc = "flagAudit"])
           \* the document is gone: save() rejects with DocumentNotFoundError
           \* or resolves, by the Mongoose version
           \/ /\ modified
              /\ at = {}
              /\ \/ Throw(s, r, "DocumentNotFoundError")
                 \/ Continue(s, [r EXCEPT !.pc = "flagAudit"])
              /\ UNCHANGED <<elections, published>>
    /\ UNCHANGED <<now, assignments, votes, auditLog, nextElection,
                   nextReceipt, started, issued, tallied, objectPrototype>>

FlagAction(kind) ==
    CASE kind = "open" -> "election_opened"
      [] kind = "close" -> "election_closed"
      [] OTHER -> "results_published"

FlagMessage(kind) ==
    CASE kind = "open" -> "Election opened"
      [] kind = "close" -> "Election closed"
      [] OTHER -> "Results published"

\* open, close, publish: AuditLog.create and res.json
FlagAudit(s) ==
    /\ req[s].pc = "flagAudit"
    /\ auditLog' = Append(auditLog,
          AuditEntry(req[s].user, FlagAction(req[s].kind), NoDetails))
    /\ Respond(s, req[s], 200, FlagMessage(req[s].kind))
    /\ UNCHANGED <<now, elections, assignments, votes, nextElection,
                   nextReceipt, started, issued, tallied, published, objectPrototype>>

\* POST /admin/tally/run: Election.findOne() and the find call
TallyFind(s, r) ==
    /\ LET election == FindElection
       IN  IF election = NoElection
           THEN Throw(s, r, "TypeError: Cannot read properties of null")
           ELSE Continue(s, [r EXCEPT !.election = election, !.pc = "tallyVotes"])
    /\ UNCHANGED <<now, elections, assignments, votes, auditLog, nextElection,
                   nextReceipt, issued, tallied, published, objectPrototype>>

\* POST /admin/tally/run arrives
StartTally(s) ==
    /\ IsFree(s)
    /\ started < MaxRequests
    /\ started' = started + 1
    /\ TallyFind(s, NewRequest("tally", Admin, NoBody))

\* POST /admin/tally/run: the votes arrive and the two loops run
TallyVotes(s) ==
    /\ req[s].pc = "tallyVotes"
    /\ LET r == req[s]
           vs == FindVotes(votes, r.election._id)
           out == TallyRun(r.election, vs, objectPrototype)
       IN  /\ Continue(s, [r EXCEPT !.votes = vs, !.results = out.results,
                                    !.pc = "tallyAudit"])
           /\ objectPrototype' = out.proto
    /\ UNCHANGED <<now, elections, assignments, votes, auditLog, nextElection,
                   nextReceipt, started, issued, tallied, published>>

\* POST /admin/tally/run: AuditLog.create and res.json({electionId, results})
TallyAudit(s) ==
    /\ req[s].pc = "tallyAudit"
    /\ auditLog' = Append(auditLog,
          AuditEntry(req[s].user, "tally_run", [totalVotes |-> Len(req[s].votes)]))
    /\ Respond(s, req[s], 200, "results")
    /\ tallied' = tallied \cup {req[s].election._id}
    /\ UNCHANGED <<now, elections, assignments, votes, nextElection,
                   nextReceipt, started, issued, published, objectPrototype>>

\* ------------------------------------------------------------ public results
\* if (!election.isPublished) of GET /results/view, negated
MayViewAlways(election) == TRUE

MayView(election) == election.isPublished

\* GET /results/view: Election.findOne() and the published check
ViewFind(s, r) ==
    /\ LET election == FindElection
       IN  IF election = NoElection
           THEN Throw(s, r, "TypeError: Cannot read properties of null")
           ELSE IF ~MayView(election)
           THEN Respond(s, [r EXCEPT !.election = election], 403, "Not published yet")
           ELSE Continue(s, [r EXCEPT !.election = election, !.pc = "viewVotes"])
    /\ UNCHANGED <<now, elections, assignments, votes, auditLog, nextElection,
                   nextReceipt, issued, tallied, published, objectPrototype>>

\* GET /results/view arrives (no middleware: any caller)
StartView(s) ==
    /\ IsFree(s)
    /\ started < MaxRequests
    /\ started' = started + 1
    /\ ViewFind(s, NewRequest("view", Anonymous, NoBody))

\* GET /results/view: the votes arrive, the two loops run, res.json
ViewVotes(s) ==
    /\ req[s].pc = "viewVotes"
    /\ LET r == req[s]
           vs == FindVotes(votes, r.election._id)
           out == ResultsView(r.election, vs, objectPrototype)
       IN  /\ Respond(s, [r EXCEPT !.votes = vs, !.results = out.results],
                      200, "results")
           /\ objectPrototype' = out.proto
    /\ UNCHANGED <<now, elections, assignments, votes, auditLog, nextElection,
                   nextReceipt, started, issued, tallied, published>>

\* ------------------------------------------------------------ system
Next ==
    \E s \in Slots :
          \/ StartBallot(s)
          \/ StartSubmit(s)
          \/ OneBallotFind(s)
          \/ OneBallotCreate(s)
          \/ BallotGet(s)
          \/ VoteCreate(s)
          \/ MarkVoted(s)
          \/ VoteAudit(s)
          \/ StartSetup(s)
          \/ SetupCreate(s)
          \/ SetupAudit(s)
          \/ StartFlag(s)
          \/ FlagSave(s)
          \/ FlagAudit(s)
          \/ StartTally(s)
          \/ TallyVotes(s)
          \/ TallyAudit(s)
          \/ StartView(s)
          \/ ViewVotes(s)

Spec == Init /\ [][Next]_vars

\* ------------------------------------------------------------ storage failures
\* every await of the routes is on a Mongoose call, which rejects when the
\* storage layer fails; no handler has a try/catch around it, so the exception
\* leaves the handler, the call has written nothing and the request ends there
StorageFails(s) ==
    /\ req[s].pc # "idle"
    /\ Throw(s, req[s], "MongoError")
    /\ UNCHANGED <<now, elections, assignments, votes, auditLog, nextElection,
                   nextReceipt, started, issued, tallied, published, objectPrototype>>

\* the first storage call of a request (Election.findOne, Election.deleteMany)
\* rejects
StartFails(s) ==
    /\ IsFree(s)
    /\ started < MaxRequests
    /\ started' = started + 1
    /\ \E r \in { NewRequest(kind, user, NoBody) : kind \in VoterKinds, user \in Voters }
               \cup { NewRequest(kind, Admin, NoBody) :
                         kind \in {"setup", "open", "close", "publish", "tally"} }
               \cup { NewRequest("view", Anonymous, NoBody) } :
          Throw(s, r, "MongoError")
    /\ UNCHANGED <<now, elections, assignments, votes, auditLog, nextElection,
                   nextReceipt, issued, tallied, published, objectPrototype>>

NextFail ==
    \/ Next
    \/ \E s \in Slots :
          \/ StorageFails(s)
          \/ StartFails(s)

SpecFail == Init /\ [][NextFail]_vars

\* ------------------------------------------------------------ tally study
\* The database after setup, open, n accepted submissions (voters in turn) and
\* publish: the votes hold any ballots of VotePool, which POST /vote/submit
\* stores as they come.
VoterOf(i) == IF i % 2 = 1 THEN "v1" ELSE "v2"

RECURSIVE VoteAudits(_)
VoteAudits(n) ==
    IF n = 0 THEN << >>
    ELSE Append(VoteAudits(n - 1),
                [actor |-> Email(VoterOf(n)), actorId |-> VoterOf(n),
                 action |-> "vote_submitted", details |-> [receipt |-> n]])

InitTally ==
    /\ now = 1
    /\ \E b \in SetupBodies :
          elections = << [_id |-> 1, startAt |-> b.startAt, endAt |-> b.endAt,
                          isOpen |-> TRUE, isPublished |-> TRUE,
                          contests |-> b.contests] >>
    /\ \E n \in 0..MaxVotes :
          /\ \E f \in [1..n -> VotePool] :
                votes = [i \in 1..n |-> [electionId |-> 1, selections |-> f[i],
                                         receipt |-> i]]
          /\ assignments = [i \in 1..(IF n < 2 THEN n ELSE 2) |->
                               [voterId |-> VoterOf(i), electionId |-> 1,
                                issuedAt |-> 1, votedAt |-> 1]]
          /\ issued = { [voter |-> VoterOf(i), electionId |-> 1, receipt |-> i] :
                           i \in 1..n }
          /\ nextReceipt = n
          /\ auditLog =
                << [actor |-> Email(Admin), actorId |-> Admin,
                    action |-> "election_setup", details |-> NoDetails],
                   [actor |-> Email(Admin), actorId |-> Admin,
                    action |-> "election_opened", details |-> NoDetails] >>
                \o VoteAudits(n)
                \o << [actor |-> Email(Admin), actorId |-> Admin,
                       action |-> "results_published", details |-> NoDetails] >>
    /\ req = [s \in Slots |-> Idle]
    /\ last = [NoAnswer EXCEPT !.kind = "publish", !.status = 200,
                               !.message = "Results published"]
    /\ nextElection = 1
    /\ started = 0
    /\ tallied = {}
    /\ published = {1}
    /\ objectPrototype = PristinePrototype

NextTally ==
    \E s \in Slots :
       \/ StartTally(s)
       \/ TallyVotes(s)
       \/ TallyAudit(s)
       \/ StartView(s)
       \/ ViewVotes(s)

SpecTally == InitTally /\ [][NextTally]_vars

\* ------------------------------------------------------------ claims
\* the step is the arrival of a request of one of `kinds`: it runs on in slot
\* started', or it has been answered at once
Arrival(kinds) ==
    /\ started' = started + 1
    /\ IF req'[started'].pc # "idle"
       THEN req'[started'].kind \in kinds
       ELSE last'.kind \in kinds

ElectionIds == { elections[i]._id : i \in DOMAIN elections }
            \cup { votes[i].electionId : i \in DOMAIN votes }
            \cup { assignments[i].electionId : i \in DOMAIN assignments }

AssignmentsOf(e) == { i \in DOMAIN assignments : assignments[i].electionId = e }

ReceiptsOf(v, e) == { i \in issued : i.voter = v /\ i.electionId = e }

\* C1: two concurrent submitVote requests of one voter in one election that
\* both pass the not-yet-voted check: exactly one is answered a receipt and
\* exactly one AnonymousVote is stored for that voter, so no voter is ever
\* answered two receipts in an election and, once every request has ended, an
\* election holds no more votes than it has assignments
C1_OneVotePerVoter ==
    \A e \in ElectionIds :
       /\ \A v \in Voters : Cardinality(ReceiptsOf(v, e)) <= 1
       /\ (\A s \in Slots : req[s].pc = "idle") =>
             Len(FindVotes(votes, e)) <= Cardinality(AssignmentsOf(e))

\* C2: once an assignment's votedAt is non-null no step changes it (a second
\* mark-voted update does not succeed)
C2_VotedAtImmutable ==
    [][\A i \in DOMAIN assignments :
          assignments[i].votedAt # Null =>
             assignments'[i].votedAt = assignments[i].votedAt]_vars

\* a request of a voter that arrived after that voter was answered a receipt in
\* the election the request is about
IsLater(r) == r.kind \in VoterKinds /\ r.election._id \in r.after

UniqueAssignments ==
    \A i, j \in DOMAIN assignments :
       (/\ assignments[i].voterId = assignments[j].voterId
        /\ assignments[i].electionId = assignments[j].electionId) => i = j

\* the requests that oneBallotOnlyMiddleware has let through
Holding == { s \in Slots : req[s].pc \in {"auditLogger", "voteCreate", "markVoted", "auditVote"} }

\* every request that holds an assignment holds the one of its voter and election
HeldRecordsMatch ==
    \A s \in Holding :
       /\ req[s].record \in DOMAIN assignments
       /\ assignments[req[s].record].voterId = req[s].user
       /\ assignments[req[s].record].electionId = req[s].election._id

\* C4: there is at most one BallotAssignment per (voterId, electionId), every
\* request let through holds that one document, no document is removed or gets
\* another key or issuedAt, and votedAt is only changed by the save of a
\* submitVote: a request for a ballot returns the assignment as it is
C4_OneAssignment ==
    [][/\ UniqueAssignments'
       /\ HeldRecordsMatch'
       /\ \A i \in DOMAIN assignments :
             /\ i \in DOMAIN assignments'
             /\ assignments'[i].voterId = assignments[i].voterId
             /\ assignments'[i].electionId = assignments[i].electionId
             /\ assignments'[i].issuedAt = assignments[i].issuedAt
             /\ assignments'[i].votedAt # assignments[i].votedAt =>
                   \E s \in Slots : /\ req[s].kind = "submit"
                                    /\ req[s].pc = "markVoted"
                                    /\ req[s].record = i
                                    /\ req'[s].pc = "auditVote"]_vars

C4_Witness ==
    \E s1, s2 \in Slots :
       /\ s1 # s2
       /\ req[s1].kind = "ballot" /\ req[s2].kind = "ballot"
       /\ req[s1].pc = "auditLogger" /\ req[s2].pc = "auditLogger"
       /\ req[s1].user = req[s2].user
       /\ req[s1].record = req[s2].record
       /\ Len(assignments) = 1

\* C5: no stored document that names a voter (id or email) holds the receipt
\* of a stored AnonymousVote; BallotAssignment and Election documents have no
\* such field, AnonymousVote documents name nobody, so this is about AuditLog
C5_NoRecordLinksVoterToVote ==
    \A i \in DOMAIN auditLog :
       auditLog[i].actorId \in Voters =>
          \/ "receipt" \notin DOMAIN auditLog[i].details
          \/ \A j \in DOMAIN votes : votes[j].receipt # auditLog[i].details.receipt

\* C6: viewResults answers counts only for an election that publishResults has
\* saved as published: an election's isPublished is false until then, and a
\* view of it is answered "Not published yet" whether or not a tally has run
C6_NoResultsBeforePublish ==
    /\ \A i \in DOMAIN elections :
          elections[i].isPublished => elections[i]._id \in published
    /\ \A s \in Slots :
          req[s].pc = "viewVotes" => /\ req[s].election.isPublished
                                     /\ req[s].election._id \in published
    /\ (last.kind = "view" /\ last.status = 200) =>
          /\ last.election.isPublished
          /\ last.election._id \in published
    /\ (last.kind = "view" /\ last.election # NoElection
          /\ last.election._id \notin published) =>
          /\ last.status = 403
          /\ last.message = "Not published yet"
          /\ last.results = NoResults

C6_Witness ==
    /\ last.kind = "view"
    /\ last.message = "Not published yet"
    /\ last.election._id \in tallied

\* C7: publishResults succeeds only for an election that is closed and has
\* been tallied, so isPublished = TRUE implies a tally has run for the election
C7_PublishedOnlyAfterTally ==
    \A i \in DOMAIN elections :
       elections[i].isPublished =>
          /\ elections[i]._id \in tallied
          /\ ~elections[i].isOpen

\* C8: a requestBallot or submitVote that finds an election goes on iff isOpen
\* and startAt <= now <= endAt hold of it at that moment; otherwise it is
\* answered 403 "Election not open" and no collection changes
C8_OnlyWhileAccepting ==
    [][(Arrival(VoterKinds) /\ elections # << >>) =>
          LET election == Head(elections)
              accepting == /\ election.isOpen
                           /\ election.startAt <= now'
                           /\ now' <= election.endAt
          IN  IF accepting
              THEN /\ req'[started'].pc = "oneBallotFind"
                   /\ req'[started'].election = election
              ELSE /\ req'[started'].pc = "idle"
                   /\ last'.status = 403
                   /\ last'.message = "Election not open"
                   /\ assignments' = assignments
                   /\ votes' = votes]_vars

C8_Witness ==
    /\ last.kind \in VoterKinds
    /\ last.message = "Election not open"
    /\ last.election.isOpen
    /\ now > last.election.endAt
    /\ assignments = << >>
    /\ votes = << >>

\* validateSelections of the specification: every selection names a contest
\* of the election, only candidates of that contest, and no more of them than
\* maxSelections
ValidSelections(contests, selections) ==
    \A j \in DOMAIN selections :
       \E k \in DOMAIN contests :
          /\ contests[k].id = selections[j].contestId
          /\ \A p \in DOMAIN selections[j].selectedCandidateIds :
                \E c \in DOMAIN contests[k].candidates :
                   contests[k].candidates[c].id = selections[j].selectedCandidateIds[p]
          /\ Len(selections[j].selectedCandidateIds) <= contests[k].maxSelections

\* C9: only submissions with valid selections are recorded: every stored
\* AnonymousVote has valid selections for the contests of its election
C9_StoredVotesAreValid ==
    \A i \in DOMAIN votes : ValidSelections(Schema, votes[i].selections)

ContestIds(contests) == { contests[k].id : k \in DOMAIN contests }

CandidateIds(contests, id) ==
    UNION { { contests[k].candidates[c].id : c \in DOMAIN contests[k].candidates } :
               k \in { k \in DOMAIN contests : contests[k].id = id } }

\* the places <<vote, selection, position>> where candidate id c is selected in
\* a selection for contest k
Occurrences(vs, k, c) ==
    UNION { UNION { { <<i, j, p>> : p \in { p \in DOMAIN vs[i].selections[j].selectedCandidateIds :
                                             /\ vs[i].selections[j].contestId = k
                                             /\ vs[i].selections[j].selectedCandidateIds[p] = c } } :
                       j \in DOMAIN vs[i].selections } :
               i \in DOMAIN vs }

ExpectedTally(contests, vs) ==
    [k \in ContestIds(contests) |->
        [c \in CandidateIds(contests, k) |-> Num(Cardinality(Occurrences(vs, k, c)))]]

\* C10: the results runTally answers have one entry per contest and candidate
\* of the election's schema and nothing else, and each count is the number of
\* times the candidate is selected for the contest in the election's votes
C10_TallyCountsOccurrences ==
    (last.kind = "tally" /\ last.status = 200) =>
       /\ last.votes = FindVotes(votes, last.election._id)
       /\ last.results = ExpectedTally(last.election.contests, last.votes)

\* seq read in the order p of its positions
Reordered(seq, p) == [i \in DOMAIN seq |-> seq[p[i]]]

\* the votes vs with the selections inside each vote in any order
RECURSIVE SelectionOrders(_)
SelectionOrders(vs) ==
    IF vs = << >> THEN { << >> }
    ELSE { << [Head(vs) EXCEPT !.selections = Reordered(@, q)] >> \o rest :
              q \in Permutations(DOMAIN Head(vs).selections),
              rest \in SelectionOrders(Tail(vs)) }

\* every order in which the votes, and the selections inside them, can be iterated
Reorderings(vs) ==
    { Reordered(w, p) : w \in SelectionOrders(vs), p \in Permutations(DOMAIN vs) }

\* C11: the results a tally run computes from the votes it found are the
\* results it computes from the same votes iterated in any other order (votes,
\* and selections inside a vote)
C11_TallyOrderIndependent ==
    [][\A s \in Slots :
          (req[s].pc = "tallyVotes" /\ req'[s].pc = "tallyAudit") =>
             \A w \in Reorderings(FindVotes(votes, req[s].election._id)) :
                TallyRun(req[s].election, w, objectPrototype).results
                   = req'[s].results]_vars

\* C12: setupElection empties the Election collection and then adds one new
\* election with a fresh _id and isOpen = isPublished = false, which is the
\* election found from then on when no other setup created one in between; no
\* step of it changes an AnonymousVote or a BallotAssignment, and no stored
\* vote is counted in a tally of the new election
C12_SetupReplacesElection ==
    [][\A s \in Slots :
          /\ (req[s].pc = "idle" /\ req'[s].pc = "setupCreate") =>
                /\ elections' = << >>
                /\ votes' = votes
                /\ assignments' = assignments
          /\ (req[s].pc = "setupCreate" /\ req'[s].pc = "setupAudit") =>
                LET new == req'[s].election
                IN  /\ elections' = Append(elections, new)
                    /\ elections = << >> => FindElection' = new
                    /\ ~new.isOpen
                    /\ ~new.isPublished
                    /\ new._id \notin ElectionIds
                    /\ votes' = votes
                    /\ assignments' = assignments
                    /\ TallyRun(new, FindVotes(votes', new._id), objectPrototype).results
                          = InitResults(new.contests)
          /\ (req[s].pc = "setupAudit" /\ req'[s].pc = "idle") =>
                /\ elections' = elections
                /\ votes' = votes
                /\ assignments' = assignments]_vars

C12_Witness ==
    /\ last.kind = "setup"
    /\ last.status = 201
    /\ elections = << last.election >>
    /\ votes # << >>
    /\ assignments # << >>
    /\ \A i \in DOMAIN votes : votes[i].electionId # last.election._id

\* the operations that read the election
ElectionKinds == VoterKinds \cup {"open", "close", "publish", "tally", "view"}

\* C13: a request that needs the election and finds none is answered the typed
\* error "No election configured" (no exception escapes the handler) and
\* changes no collection
C13_NoElectionIsTypedError ==
    [][(Arrival(ElectionKinds) /\ elections = << >>) =>
          /\ req'[started'].pc = "idle"
          /\ last'.status # 0
          /\ last'.message = "No election configured"
          /\ elections' = elections
          /\ assignments' = assignments
          /\ votes' = votes
          /\ auditLog' = auditLog]_vars

\* C14: when a submitVote request ends, for whatever reason, and it has stored
\* an AnonymousVote (the one with the receipt it drew), the assignment it holds
\* has votedAt set: no submission leaves its vote stored and votedAt null
C14_SubmitAllOrNothing ==
    [][\A s \in Slots :
          (req[s].kind = "submit" /\ req'[s].pc = "idle"
              /\ \E i \in DOMAIN votes' : votes'[i].receipt = req[s].receipt) =>
             assignments'[req[s].record].votedAt # Null]_vars

\* C15: a request whose BallotAssignment.create meets the document another
\* request of the same voter created meanwhile goes on with that document (or
\* is answered "Already voted" when that document has votedAt set); it does
\* not end with the uniqueness error
C15_CreationLosersFallBack ==
    [][\A s \in Slots :
          (/\ req[s].pc = "oneBallotCreate"
           /\ req'[s] # req[s]
           /\ FindAssignment(req[s].user, req[s].election._id) # 0) =>
             LET id == FindAssignment(req[s].user, req[s].election._id)
             IN  IF HasVoted(assignments[id])
                 THEN /\ req'[s].pc = "idle"
                      /\ last'.status = 403
                      /\ last'.message = "Already voted"
                 ELSE /\ req'[s].pc = AfterOneBallot(req[s].kind)
                      /\ req'[s].record = id]_vars

\* the positions at which the next call of a request is its AuditLog.create
AuditPcs == {"auditLogger", "auditVote", "setupAudit", "flagAudit", "tallyAudit"}

\* C16: a request that has reached its audit write ends with the answer of its
\* primary action (200 or 201; for submitVote, the receipt it drew), whether
\* or not the audit write succeeds
C16_AuditFailureNeverBlocks ==
    [][\A s \in Slots :
          (req[s].pc \in AuditPcs /\ req'[s].pc = "idle") =>
             /\ last'.kind = req[s].kind
             /\ last'.status \in {200, 201}
             /\ last'.receipt = req[s].receipt]_vars

\* C17: the Election collection never holds more than one document
C17_AtMostOneElection == Len(elections) <= 1

\* the positions of a submitVote that oneBallotOnlyMiddleware has let through
SubmitPcs == {"voteCreate", "markVoted", "auditVote"}

\* C18: a submitVote is only ever refused by oneBallotOnlyMiddleware, or made to
\* fail there, because of a BallotAssignment of its own voter; once let
\* through it holds its own voter's assignment, stores exactly one
\* AnonymousVote and changes no assignment, then sets votedAt of its own
\* assignment and of no other, and ends with 200 and its receipt: requests of
\* other voters change none of this in any interleaving
C18_DifferentVotersNeverConflict ==
    [][\A s \in Slots :
          LET r == req[s]
          IN  r.kind = "submit" =>
                /\ (r.pc \in {"oneBallotFind", "oneBallotCreate"} /\ req'[s].pc = "idle") =>
                      /\ FindAssignment(r.user, r.election._id) # 0
                      /\ assignments' = assignments
                      /\ votes' = votes
                /\ (r.pc \in SubmitPcs) =>
                      /\ assignments[r.record].voterId = r.user
                      /\ assignments[r.record].electionId = r.election._id
                /\ (r.pc = "voteCreate" /\ req'[s].pc = "markVoted") =>
                      /\ Len(votes') = Len(votes) + 1
                      /\ votes'[Len(votes')].selections = r.body
                      /\ \A i \in DOMAIN votes : votes[i].receipt # req'[s].receipt
                      /\ assignments' = assignments
                /\ (r.pc = "markVoted" /\ req'[s].pc = "auditVote") =>
                      /\ assignments'[r.record].votedAt # Null
                      /\ \A i \in DOMAIN assignments :
                            i # r.record => assignments'[i] = assignments[i]
                      /\ votes' = votes
                /\ (r.pc \in SubmitPcs /\ req'[s].pc = "idle") =>
                      /\ r.pc = "auditVote"
                      /\ last'.status = 200
                      /\ last'.user = r.user
                      /\ last'.receipt = r.receipt
                      /\ assignments'[r.record].votedAt # Null]_vars

\* both voters have been answered a receipt after their submissions
\* interleaved: the first assignment is one voter's, the first vote the other's
C18_Witness ==
    /\ last.kind = "submit"
    /\ last.status = 200
    /\ Len(votes) = 2
    /\ Len(assignments) = 2
    /\ \A v \in Voters : \E i \in issued : i.voter = v
    /\ \A i \in DOMAIN assignments : assignments[i].votedAt # Null
    /\ \E i \in issued : i.receipt = votes[1].receipt /\ i.voter # assignments[1].voterId

\* C19: once closeElection has answered for an election and the stored
\* election still has isOpen = false, no step adds an AnonymousVote for it or
\* changes votedAt of one of its assignments, whatever requests are in flight
C19_NoVotesAfterClose ==
    [][\A i \in DOMAIN elections :
          (/\ ~elections[i].isOpen
           /\ last.kind = "close"
           /\ last.status = 200
           /\ last.election._id = elections[i]._id
           /\ elections' = elections) =>
             /\ FindVotes(votes', elections[i]._id) = FindVotes(votes, elections[i]._id)
             /\ \A j \in DOMAIN assignments :
                   assignments[j].electionId = elections[i]._id =>
                      assignments'[j].votedAt = assignments[j].votedAt]_vars

\* C20: in every state, for every stored election and the votes stored for it,
\* the loops of GET /results/view compute the results the loops of POST
\* /admin/tally/run compute, and every answer of either route carries the
\* results the other route's loops give for the election and votes it read
C20_ViewEqualsTally ==
    [][/\ \A i \in DOMAIN elections :
             LET vs == FindVotes(votes, elections[i]._id)
             IN  ResultsView(elections[i], vs, objectPrototype)
                    = TallyRun(elections[i], vs, objectPrototype)
       /\ \A s \in Slots :
             /\ (req[s].pc = "viewVotes" /\ req'[s].pc = "idle") =>
                   /\ last'.status = 200
                   /\ last'.votes = FindVotes(votes, req[s].election._id)
                   /\ last'.results =
                         TallyRun(req[s].election, last'.votes, objectPrototype).results
             /\ (req[s].pc = "tallyVotes" /\ req'[s].pc = "tallyAudit") =>
                   /\ req'[s].votes = FindVotes(votes, req[s].election._id)
                   /\ req'[s].results =
                         ResultsView(req[s].election, req'[s].votes,
                                     objectPrototype).results]_vars

\* results have been viewed after a tally run, with counts above zero
C20_Witness ==
    /\ last.kind = "view"
    /\ last.status = 200
    /\ last.election._id \in tallied
    /\ Len(last.votes) = 2
    /\ last.results["C1"]["A"] = Num(2)
    /\ "toString" \in DOMAIN last.results["C1"]

====
